---- MODULE Spec2Model ----
(***************************************************************************)
(* Model of the catalog store of catalog-viewer-spa (stores/catalogStore): *)
(* the per-datastore cache (loadDatastore, clearDatastoreCache and the     *)
(* lookups) and the metacatalog state (fetchCatalogData, clearData).       *)
(*                                                                         *)
(* JavaScript runs the store on one event loop: every action below is the  *)
(* code that runs between two suspension points (await) of one call, or a  *)
(* synchronous store function run by a consumer.  The completions of the   *)
(* network fetch, of the DuckDB worker start-up and of the queries are     *)
(* events of the environment; the continuation of the awaiting call runs   *)
(* in the same step as the event that settles the awaited promise.         *)
(***************************************************************************)
EXTENDS Integers, Sequences, FiniteSets, TLC

(***************************************************************************)
(* Bounds of the model.                                                    *)
(***************************************************************************)
\* number of loadDatastore invocations in one run
MaxCalls == 2
\* number of fetchCatalogData invocations in one run
MaxCatCalls == 2
\* the longest list given to a normalizer
MaxElems == 2
\* the largest number of rows given to generateFilterOptions
MaxRows == 2

Calls == 1..MaxCalls
CatCalls == 1..MaxCatCalls

(***************************************************************************)
(* JavaScript values, tagged by their runtime type.                        *)
(***************************************************************************)
Null == [t |-> "null"]
Undefined == [t |-> "undefined"]
Str(s) == [t |-> "string", v |-> s]
Num(n) == [t |-> "number", v |-> n]
Bool(b) == [t |-> "boolean", v |-> b]
Arr(a) == [t |-> "array", v |-> a]
Vec(a) == [t |-> "vector", v |-> a]

\* v === null || v === undefined
IsNullish(v) == v.t \in {"null", "undefined"}

\* String(v): arrays join the strings of their elements with ",", where a
\* null or undefined element gives the empty string
RECURSIVE String(_)
RECURSIVE JoinComma(_)
String(v) ==
  CASE v.t = "string" -> v.v
    [] v.t = "number" -> ToString(v.v)
    [] v.t = "boolean" -> (IF v.v THEN "true" ELSE "false")
    [] v.t = "null" -> "null"
    [] v.t = "undefined" -> "undefined"
    [] v.t = "array" -> JoinComma(v.v)
    [] v.t = "vector" -> "[object Object]"
JoinComma(a) ==
  IF a = <<>> THEN ""
  ELSE (IF IsNullish(Head(a)) THEN "" ELSE String(Head(a)))
       \o (IF Len(a) > 1 THEN "," \o JoinComma(Tail(a)) ELSE "")

\* JavaScript truthiness (`value ? a : b`, `if (value)`)
Truthy(v) ==
  CASE v.t = "string" -> v.v # ""
    [] v.t = "number" -> v.v # 0
    [] v.t = "boolean" -> v.v
    [] v.t \in {"null", "undefined"} -> FALSE
    [] OTHER -> TRUE

\* a.filter((v) => v !== null && v !== undefined)
RECURSIVE DropNulls(_)
DropNulls(a) ==
  IF a = <<>> THEN <<>>
  ELSE IF IsNullish(Head(a)) THEN DropNulls(Tail(a))
       ELSE <<Head(a)>> \o DropNulls(Tail(a))

\* a.map(String)
MapString(a) == [i \in 1..Len(a) |-> Str(String(a[i]))]

\* a[0]: undefined on an empty array
First(a) == IF a = <<>> THEN Undefined ELSE a[1]

\* JSON.parse on the strings the model feeds it: ok = FALSE is the SyntaxError
JsonParse(s) ==
  CASE s = "[]" -> [ok |-> TRUE, value |-> Arr(<<>>)]
    [] s = "[\"a\"]" -> [ok |-> TRUE, value |-> Arr(<<Str("a")>>)]
    [] s = "[\"a\",\"b\"]" -> [ok |-> TRUE, value |-> Arr(<<Str("a"), Str("b")>>)]
    [] s = "[null,\"a\"]" -> [ok |-> TRUE, value |-> Arr(<<Null, Str("a")>>)]
    [] s = "[0]" -> [ok |-> TRUE, value |-> Arr(<<Num(0)>>)]
    [] s = "[\"\"]" -> [ok |-> TRUE, value |-> Arr(<<Str("")>>)]
    [] s = "null" -> [ok |-> TRUE, value |-> Null]
    [] s = "7" -> [ok |-> TRUE, value |-> Num(7)]
    [] s = "true" -> [ok |-> TRUE, value |-> Bool(TRUE)]
    [] s = "\"a\"" -> [ok |-> TRUE, value |-> Str("a")]
    [] OTHER -> [ok |-> FALSE, value |-> Undefined]

\* collapse of a list in processField:
\* a.length > 1 ? a.map(String) : a[0] ? String(a[0]) : null
Collapse(a) ==
  IF Len(a) > 1 THEN Arr(MapString(a))
  ELSE IF Truthy(First(a)) THEN Str(String(First(a))) ELSE Null

\* processField of queryEsmDatastore
processField(value) ==
  IF IsNullish(value) THEN Null
  ELSE IF value.t = "vector" THEN Collapse(DropNulls(value.v))
  ELSE IF value.t = "array" THEN Collapse(DropNulls(value.v))
  ELSE IF value.t = "string" THEN
    (IF JsonParse(value.v).ok
     THEN (IF JsonParse(value.v).value.t = "array"
           THEN Collapse(JsonParse(value.v).value.v)
           ELSE Str(String(JsonParse(value.v).value)))
     ELSE Str(String(value)))
  ELSE value

\* the rows queryEsmDatastore returns: a row is its entries <<column, cell>>
\* in the order the columns were assigned (the order of the schema)
TransformedData(b) ==
  [r \in 1..Len(b.rows) |->
     [i \in 1..Len(b.schema) |-> <<b.schema[i], processField(b.rows[r][i])>>]]

\* Object.keys(row)
Keys(row) == [i \in 1..Len(row) |-> row[i][1]]

(***************************************************************************)
(* Strings: order by UTF-16 code unit (Array.prototype.sort) and trim.     *)
(***************************************************************************)
\* the characters of the model's strings, in code unit order
Ascii == " ,-0123456789ABCDEFGHIJKLMNOPQRSTUVWXYZ_abcdefghijklmnopqrstuvwxyz"
CodeUnit(ch) == CHOOSE i \in 1..Len(Ascii) : SubSeq(Ascii, i, i) = ch

RECURSIVE StrLess(_, _)
StrLess(a, b) ==
  IF b = "" THEN FALSE
  ELSE IF a = "" THEN TRUE
  ELSE IF SubSeq(a, 1, 1) = SubSeq(b, 1, 1)
       THEN StrLess(SubSeq(a, 2, Len(a)), SubSeq(b, 2, Len(b)))
       ELSE CodeUnit(SubSeq(a, 1, 1)) < CodeUnit(SubSeq(b, 1, 1))

\* s.trim() is the empty string
TrimsToEmpty(s) == \A i \in 1..Len(s) : SubSeq(s, i, i) \in {" ", "\t", "\n"}

RECURSIVE SetToSeq(_)
SetToSeq(S) ==
  IF S = {} THEN <<>>
  ELSE LET e == CHOOSE y \in S : TRUE IN <<e>> \o SetToSeq(S \ {e})

\* Array.from(set).sort()
SortedArray(S) == SortSeq(SetToSeq(S), StrLess)

(***************************************************************************)
(* Helper functions for datastore management.                              *)
(***************************************************************************)
\* mutant: blank strings are kept as options
CellOptions_KeepsBlank(value) ==
  IF value.t = "array"
  THEN {String(value.v[i]) : i \in {j \in 1..Len(value.v) : ~IsNullish(value.v[j])}}
  ELSE IF ~IsNullish(value) THEN {String(value)} ELSE {}

\* the strings one cell adds to the option set of its column
CellOptions(value) ==
  IF value.t = "array"
  THEN {String(value.v[i]) : i \in {j \in 1..Len(value.v) :
          ~IsNullish(value.v[j]) /\ ~TrimsToEmpty(String(value.v[j]))}}
  ELSE IF ~IsNullish(value) /\ ~TrimsToEmpty(String(value))
       THEN {String(value)} ELSE {}

\* Object.entries of every row
Entries(rows) == UNION {{rows[r][i] : i \in 1..Len(rows[r])} : r \in 1..Len(rows)}

\* mutant: only the displayed columns get an entry
generateFilterOptions_DisplayedOnly(rows) ==
  [column \in {e[1] : e \in Entries(rows)} \ {"__index_level_0__"} |->
     SortedArray(UNION {CellOptions(e[2]) : e \in {f \in Entries(rows) : f[1] = column}})]

generateFilterOptions(rows) ==
  [column \in {e[1] : e \in Entries(rows)} |->
     SortedArray(UNION {CellOptions(e[2]) : e \in {f \in Entries(rows) : f[1] = column}})]

\* dataColumns.filter(col => col is not the index column)
setupColumns(dataColumns) == SelectSeq(dataColumns, LAMBDA col : col # "__index_level_0__")

(***************************************************************************)
(* The datastore names a consumer can pass.  The empty string is a string  *)
(* like any other for the cache (a key of the record).                     *)
(***************************************************************************)
Names == {"", "x"}
Unset == "<unset>"

\* dataset names that occur as the `name` parameter of /datastore/:name
RouteNames == {"x", "y"}

\* the optional argument of clearDatastoreCache: <<>> is "no argument"
ClearArgs == {<<>>} \cup {<<n>> : n \in Names}

(***************************************************************************)
(* What the network and the parquet files can answer.                      *)
(***************************************************************************)
\* HTTP statuses of a response; response.ok is status in 200..299
Statuses == {200, 404}
ResponseOk(s) == s >= 200 /\ s <= 299

\* The result of the two queries of queryEsmDatastore on a parquet file:
\* the column names of DESCRIBE, and the rows of the projection, every
\* cell a VARCHAR[] vector (a row is its cells in schema order).
Bodies ==
  { [schema |-> <<"__index_level_0__", "realm", "variable">>, rows |-> <<>>],
    [schema |-> <<"__index_level_0__", "realm", "variable">>,
     rows |-> << <<Vec(<<Str("0")>>), Vec(<<Str("ocean"), Str("atmos")>>), Vec(<<>>)>>,
                 <<Vec(<<Str("1")>>), Vec(<<Str("ocean")>>), Vec(<<Null>>)>> >>] }
NoBody == [schema |-> <<>>, rows |-> <<>>]

VARIABLES
  datastoreCache,  \* datastoreCache.value: name -> DatastoreCache record
  pc,              \* where each loadDatastore call is suspended
  arg,             \* datastoreName of each call
  fetchSt,         \* the fetch(datastoreUrl) promise of each call
  status,          \* response.status of each call's response
  sessSt,          \* the DuckDB session (worker, db, conn) each call started
  body,            \* what the call's queries return (schema and rows)
  ret,             \* how the promise of each call settled
  cleared,         \* history: names evicted and not requested again since
  track,           \* whether the behaviour records the history `cleared`
  data,            \* metacatalog: data.value (number of rows)
  loading,         \* metacatalog: loading.value
  error,           \* metacatalog: error.value
  cpc,             \* where each fetchCatalogData call is suspended
  cfetch,          \* the fetchMetaCatFile() promise of each call
  csess,           \* the DuckDB session each fetchCatalogData call started
  cret,            \* how the promise of each fetchCatalogData call settled
  afterClear,      \* history: clearData was called and no fetchCatalogData since
  route,           \* DatastoreDetail: route.params.name (undefined off the view)
  input,           \* the argument of a transformation applied on its own
  op,              \* which transformation was applied to input
  result           \* what it returned

dsVars == <<datastoreCache, pc, arg, fetchSt, status, sessSt, body, ret, cleared, track>>
catVars == <<data, loading, error, cpc, cfetch, csess, cret, afterClear>>
viewVars == <<route>>
fnVars == <<input, op, result>>
vars == <<datastoreCache, pc, arg, fetchSt, status, sessSt, body, ret, cleared, track,
          data, loading, error, cpc, cfetch, csess, cret, afterClear, route,
          input, op, result>>

(***************************************************************************)
(* DatastoreCache records.  lastFetched (new Date()) is kept as the write  *)
(* that created the record, <<call, kind of write>>: two records are the   *)
(* same object exactly when the same write created them.                   *)
(***************************************************************************)
LoadingRecord(c) ==
  [data |-> <<>>, totalRecords |-> 0, columns |-> <<>>, filterOptions |-> <<>>,
   loading |-> TRUE, error |-> Null, lastFetched |-> <<c, "initial">>]

\* mutant: the loaded record keeps the row count of the placeholder
ReadyRecord_ZeroTotal(c, datastoreData) ==
  [data |-> datastoreData,
   totalRecords |-> 0,
   columns |-> setupColumns(IF datastoreData = <<>> THEN <<>> ELSE Keys(datastoreData[1])),
   filterOptions |-> generateFilterOptions(datastoreData),
   loading |-> FALSE, error |-> Null, lastFetched |-> <<c, "loaded">>]

ReadyRecord(c, datastoreData) ==
  [data |-> datastoreData,
   totalRecords |-> Len(datastoreData),
   columns |-> setupColumns(IF datastoreData = <<>> THEN <<>> ELSE Keys(datastoreData[1])),
   filterOptions |-> generateFilterOptions(datastoreData),
   loading |-> FALSE, error |-> Null, lastFetched |-> <<c, "loaded">>]

\* mutant: the record of a failed load carries no error message
FailedRecord_NoError(c, errorMessage) ==
  [data |-> <<>>, totalRecords |-> 0, columns |-> <<>>, filterOptions |-> <<>>,
   loading |-> FALSE, error |-> Null, lastFetched |-> <<c, "failed">>]

FailedRecord(c, errorMessage) ==
  [data |-> <<>>, totalRecords |-> 0, columns |-> <<>>, filterOptions |-> <<>>,
   loading |-> FALSE, error |-> Str(errorMessage), lastFetched |-> <<c, "failed">>]

createEmptyCache(c) ==
  [data |-> <<>>, totalRecords |-> 0, columns |-> <<>>, filterOptions |-> <<>>,
   loading |-> FALSE, error |-> Str("Datastore not found"), lastFetched |-> <<c, "empty">>]

\* mutant: the message of a non-OK response leaves the status out
HttpErrorMessage_NoStatus(s) == "Failed to fetch datastore parquet file"

\* err.message of the errors a load can throw
HttpErrorMessage(s) == "Failed to fetch datastore parquet file: " \o ToString(s)
TransportErrorMessage == "Failed to fetch"
EngineErrorMessage == "DuckDB could not be initialized"
BufferErrorMessage == "The response body could not be read"
QueryErrorMessage == "The query failed"
\* the errors conn.close() and db.terminate() reject with
CloseErrorMessage == "close failed"
TerminateErrorMessage == "terminate failed"

(***************************************************************************)
(* The cache object: datastoreCache.value[name], assignment and delete.    *)
(***************************************************************************)
Has(cache, name) == name \in DOMAIN cache
\* mutant: the write replaces every entry of the cache, not only the
\* entry of the given name
Put_EveryEntry(cache, name, record) ==
  [n \in DOMAIN cache \cup {name} |-> record]

\* mutant: a write only replaces an entry that is still in the cache
Put_OnlyIfPresent(cache, name, record) ==
  IF name \in DOMAIN cache THEN [cache EXCEPT ![name] = record] ELSE cache

Put(cache, name, record) ==
  [m \in DOMAIN cache \cup {name} |-> IF m = name THEN record ELSE cache[m]]
Delete(cache, name) == [m \in DOMAIN cache \ {name} |-> cache[m]]

getDatastoreFromCache(datastoreName) ==
  IF Has(datastoreCache, datastoreName) THEN datastoreCache[datastoreName] ELSE Null

isDatastoreLoading(datastoreName) ==
  IF Has(datastoreCache, datastoreName) THEN datastoreCache[datastoreName].loading ELSE FALSE

\* mutant: any record that is not loading counts as cached, rows or not
CachedAndNotLoading_AnyRows(cache, name) ==
  name \in DOMAIN cache /\ ~cache[name].loading

\* `cached && cached.data.length > 0 && !cached.loading`
CachedAndNotLoading(cache, name) ==
  Has(cache, name) /\ Len(cache[name].data) > 0 /\ ~cache[name].loading

\* `cached?.loading`, `datastoreCache.value[datastoreName]?.loading`
\* mutant: a call never waits for a load in progress
CurrentlyLoading_Never(cache, name) == FALSE

CurrentlyLoading(cache, name) == Has(cache, name) /\ cache[name].loading

\* `if (datastoreName)` on the optional argument of clearDatastoreCache
NameGiven(a) == a # <<>> /\ a[1] # ""

\* the cache clearDatastoreCache(a) leaves
Cleared(cache, a) == IF NameGiven(a) THEN Delete(cache, a[1]) ELSE <<>>

(***************************************************************************)
(* The promise of a call.                                                  *)
(***************************************************************************)
Pending == [kind |-> "pending", value |-> Null]
Resolved(r) == [kind |-> "resolved", value |-> r]
Rejected(m) == [kind |-> "rejected", value |-> Str(m)]

\* a load is in flight from its placeholder write to its final cache write
InFlightPcs == {"join", "buffer", "register", "describe", "select"}
InFlight(c) == pc[c] \in InFlightPcs

DsInit ==
  /\ datastoreCache = <<>>
  /\ pc = [c \in Calls |-> "idle"]
  /\ arg = [c \in Calls |-> Unset]
  /\ fetchSt = [c \in Calls |-> "none"]
  /\ status = [c \in Calls |-> 0]
  /\ sessSt = [c \in Calls |-> "none"]
  /\ body = [c \in Calls |-> NoBody]
  /\ ret = [c \in Calls |-> Pending]
  /\ cleared = {}

(***************************************************************************)
(* loadDatastore(datastoreName), up to its first await.                    *)
(***************************************************************************)
\* mutant: the placeholder is not written when the load starts
LoadDatastoreOn_NoPlaceholder(cache, evicted, c, datastoreName) ==
  /\ pc[c] = "idle"
  /\ \A d \in Calls : d < c => pc[d] # "idle"
  /\ arg' = [arg EXCEPT ![c] = datastoreName]
  /\ datastoreCache' = cache
  /\ IF CachedAndNotLoading(cache, datastoreName)
     THEN /\ pc' = [pc EXCEPT ![c] = "done"]
          /\ ret' = [ret EXCEPT ![c] = Resolved(cache[datastoreName])]
          /\ UNCHANGED <<fetchSt, sessSt>>
     ELSE IF CurrentlyLoading(cache, datastoreName)
     THEN /\ pc' = [pc EXCEPT ![c] = "poll"]
          /\ UNCHANGED <<fetchSt, sessSt, ret>>
     ELSE /\ fetchSt' = [fetchSt EXCEPT ![c] = "pending"]
          /\ sessSt' = [sessSt EXCEPT ![c] = "pending"]
          /\ pc' = [pc EXCEPT ![c] = "join"]
          /\ UNCHANGED ret
  /\ cleared' = evicted \ {datastoreName}
  /\ UNCHANGED <<status, body, track>>
  /\ UNCHANGED catVars
  /\ UNCHANGED fnVars

\* the call runs on the cache `cache`, which is datastoreCache.value at the
\* time of the call (evicted: the history `cleared` at that time)
LoadDatastoreOn(cache, evicted, c, datastoreName) ==
  /\ pc[c] = "idle"
  /\ \A d \in Calls : d < c => pc[d] # "idle"
  /\ arg' = [arg EXCEPT ![c] = datastoreName]
  /\ IF CachedAndNotLoading(cache, datastoreName)
     THEN /\ pc' = [pc EXCEPT ![c] = "done"]
          /\ ret' = [ret EXCEPT ![c] = Resolved(cache[datastoreName])]
          /\ datastoreCache' = cache
          /\ UNCHANGED <<fetchSt, sessSt>>
     ELSE IF CurrentlyLoading(cache, datastoreName)
     THEN /\ pc' = [pc EXCEPT ![c] = "poll"]
          /\ datastoreCache' = cache
          /\ UNCHANGED <<fetchSt, sessSt, ret>>
     ELSE /\ datastoreCache' = Put(cache, datastoreName, LoadingRecord(c))
          /\ fetchSt' = [fetchSt EXCEPT ![c] = "pending"]
          /\ sessSt' = [sessSt EXCEPT ![c] = "pending"]
          /\ pc' = [pc EXCEPT ![c] = "join"]
          /\ UNCHANGED ret
  /\ cleared' = evicted \ {datastoreName}
  /\ UNCHANGED <<status, body, track>>
  /\ UNCHANGED catVars
  /\ UNCHANGED fnVars

LoadDatastore(c, datastoreName) ==
  /\ LoadDatastoreOn(datastoreCache, cleared, c, datastoreName)
  /\ UNCHANGED viewVars

\* mutant: the waiting call checks once and returns whatever is there
Poll_ChecksOnce(c) ==
  /\ pc[c] = "poll"
  /\ pc' = [pc EXCEPT ![c] = "done"]
  /\ ret' = [ret EXCEPT ![c] =
        Resolved(IF arg[c] \in DOMAIN datastoreCache THEN datastoreCache[arg[c]]
                 ELSE createEmptyCache(c))]
  /\ UNCHANGED <<datastoreCache, arg, fetchSt, status, sessSt, body, cleared, track>>
  /\ UNCHANGED catVars
  /\ UNCHANGED fnVars
  /\ UNCHANGED viewVars

\* the timer of the polling loop fires: check again, return when not loading
Poll(c) ==
  /\ pc[c] = "poll"
  /\ IF CurrentlyLoading(datastoreCache, arg[c])
     THEN UNCHANGED <<pc, ret>>
     ELSE /\ pc' = [pc EXCEPT ![c] = "done"]
          /\ ret' = [ret EXCEPT ![c] =
                Resolved(IF Has(datastoreCache, arg[c]) THEN datastoreCache[arg[c]]
                         ELSE createEmptyCache(c))]
  /\ UNCHANGED <<datastoreCache, arg, fetchSt, status, sessSt, body, cleared, track>>
  /\ UNCHANGED catVars
  /\ UNCHANGED fnVars
  /\ UNCHANGED viewVars

(***************************************************************************)
(* The catch and finally blocks of loadDatastore, run when an awaited step *)
(* of call c throws err: the Failed record is written, then the session is *)
(* closed if db and conn were assigned, and the call rejects with err.     *)
(***************************************************************************)
\* mutant: a failed load removes the entry of its name
Catch_DeletesEntry(c, message, connAssigned) ==
  /\ datastoreCache' = Delete(datastoreCache, arg[c])
  /\ IF connAssigned
     THEN /\ pc' = [pc EXCEPT ![c] = "closeConn"]
          /\ ret' = [ret EXCEPT ![c] = [kind |-> "throwing", value |-> Str(message)]]
     ELSE /\ pc' = [pc EXCEPT ![c] = "done"]
          /\ ret' = [ret EXCEPT ![c] = Rejected(message)]

\* mutant: a failed load rejects without writing the Failed record
Catch_NoWrite(c, message, connAssigned) ==
  /\ datastoreCache' = datastoreCache
  /\ IF connAssigned
     THEN /\ pc' = [pc EXCEPT ![c] = "closeConn"]
          /\ ret' = [ret EXCEPT ![c] = [kind |-> "throwing", value |-> Str(message)]]
     ELSE /\ pc' = [pc EXCEPT ![c] = "done"]
          /\ ret' = [ret EXCEPT ![c] = Rejected(message)]

Catch(c, message, connAssigned) ==
  /\ datastoreCache' = Put(datastoreCache, arg[c], FailedRecord(c, message))
  /\ IF connAssigned
     THEN /\ pc' = [pc EXCEPT ![c] = "closeConn"]
          /\ ret' = [ret EXCEPT ![c] = [kind |-> "throwing", value |-> Str(message)]]
     ELSE /\ pc' = [pc EXCEPT ![c] = "done"]
          /\ ret' = [ret EXCEPT ![c] = Rejected(message)]

\* the continuation of `await Promise.all([fetch, initializeDuckDB()])` once
\* both are fulfilled: the status check, then `await response.arrayBuffer()`
JoinFulfilled(c, s) ==
  IF ResponseOk(s)
  THEN /\ pc' = [pc EXCEPT ![c] = "buffer"]
       /\ UNCHANGED <<datastoreCache, ret>>
  ELSE Catch(c, HttpErrorMessage(s), FALSE)

\* fetch(datastoreUrl) is fulfilled with a response of status s.  (Once
\* Promise.all has rejected nothing reads the fetch promise any more, so
\* its later settling is no step of the model.)
FetchResponds(c, s) ==
  /\ fetchSt[c] = "pending"
  /\ pc[c] = "join"
  /\ fetchSt' = [fetchSt EXCEPT ![c] = "response"]
  /\ status' = [status EXCEPT ![c] = s]
  /\ IF sessSt[c] = "open"
     THEN JoinFulfilled(c, s)
     ELSE UNCHANGED <<datastoreCache, pc, ret>>
  /\ UNCHANGED <<arg, sessSt, body, cleared, track>>
  /\ UNCHANGED catVars
  /\ UNCHANGED fnVars
  /\ UNCHANGED viewVars

\* fetch(datastoreUrl) is rejected (transport failure)
FetchFails(c) ==
  /\ fetchSt[c] = "pending"
  /\ pc[c] = "join"
  /\ fetchSt' = [fetchSt EXCEPT ![c] = "failed"]
  /\ Catch(c, TransportErrorMessage, FALSE)
  /\ UNCHANGED <<arg, status, sessSt, body, cleared, track>>
  /\ UNCHANGED catVars
  /\ UNCHANGED fnVars
  /\ UNCHANGED viewVars

\* initializeDuckDB() is fulfilled with { db, conn }
SessionOpens(c) ==
  /\ sessSt[c] = "pending"
  /\ sessSt' = [sessSt EXCEPT ![c] = "open"]
  /\ IF pc[c] = "join" /\ fetchSt[c] = "response"
     THEN JoinFulfilled(c, status[c])
     ELSE UNCHANGED <<datastoreCache, pc, ret>>
  /\ UNCHANGED <<arg, fetchSt, status, body, cleared, track>>
  /\ UNCHANGED catVars
  /\ UNCHANGED fnVars
  /\ UNCHANGED viewVars

\* initializeDuckDB() is rejected
SessionFails(c) ==
  /\ sessSt[c] = "pending"
  /\ sessSt' = [sessSt EXCEPT ![c] = "failed"]
  /\ IF pc[c] = "join"
     THEN Catch(c, EngineErrorMessage, FALSE)
     ELSE UNCHANGED <<datastoreCache, pc, ret>>
  /\ UNCHANGED <<arg, fetchSt, status, body, cleared, track>>
  /\ UNCHANGED catVars
  /\ UNCHANGED fnVars
  /\ UNCHANGED viewVars

\* `await response.arrayBuffer()` settles; on success db and conn are
\* assigned and queryEsmDatastore awaits db.registerFileBuffer
BufferSettles(c, ok) ==
  /\ pc[c] = "buffer"
  /\ IF ok
     THEN /\ pc' = [pc EXCEPT ![c] = "register"]
          /\ UNCHANGED <<datastoreCache, ret>>
     ELSE Catch(c, BufferErrorMessage, FALSE)
  /\ UNCHANGED <<arg, fetchSt, status, sessSt, body, cleared, track>>
  /\ UNCHANGED catVars
  /\ UNCHANGED fnVars
  /\ UNCHANGED viewVars

\* mutant: the projection query is run without the schema query before it
RegisterSettles_SkipsDescribe(c, ok) ==
  /\ pc[c] = "register"
  /\ IF ok
     THEN /\ pc' = [pc EXCEPT ![c] = "select"]
          /\ UNCHANGED <<datastoreCache, ret>>
     ELSE Catch(c, QueryErrorMessage, TRUE)
  /\ UNCHANGED <<arg, fetchSt, status, sessSt, body, cleared, track>>
  /\ UNCHANGED catVars
  /\ UNCHANGED fnVars
  /\ UNCHANGED viewVars

\* `await db.registerFileBuffer(fileName, uint8Array)` settles
RegisterSettles(c, ok) ==
  /\ pc[c] = "register"
  /\ IF ok
     THEN /\ pc' = [pc EXCEPT ![c] = "describe"]
          /\ UNCHANGED <<datastoreCache, ret>>
     ELSE Catch(c, QueryErrorMessage, TRUE)
  /\ UNCHANGED <<arg, fetchSt, status, sessSt, body, cleared, track>>
  /\ UNCHANGED catVars
  /\ UNCHANGED fnVars
  /\ UNCHANGED viewVars

\* the DESCRIBE query settles; b is what the file holds
DescribeSettles(c, ok, b) ==
  /\ pc[c] = "describe"
  /\ IF ok
     THEN /\ pc' = [pc EXCEPT ![c] = "select"]
          /\ body' = [body EXCEPT ![c] = b]
          /\ UNCHANGED <<datastoreCache, ret>>
     ELSE /\ Catch(c, QueryErrorMessage, TRUE)
          /\ UNCHANGED body
  /\ UNCHANGED <<arg, fetchSt, status, sessSt, cleared, track>>
  /\ UNCHANGED catVars
  /\ UNCHANGED fnVars
  /\ UNCHANGED viewVars

\* the projection query settles; on success the rows are transformed and
\* the cache entry is replaced by the loaded record, which is returned
SelectSettles(c, ok) ==
  /\ pc[c] = "select"
  /\ IF ok
     THEN /\ datastoreCache' =
               Put(datastoreCache, arg[c], ReadyRecord(c, TransformedData(body[c])))
          /\ pc' = [pc EXCEPT ![c] = "closeConn"]
          /\ ret' = [ret EXCEPT ![c] =
                [kind |-> "returning", value |-> ReadyRecord(c, TransformedData(body[c]))]]
     ELSE Catch(c, QueryErrorMessage, TRUE)
  /\ UNCHANGED <<arg, fetchSt, status, sessSt, body, cleared, track>>
  /\ UNCHANGED catVars
  /\ UNCHANGED fnVars
  /\ UNCHANGED viewVars

\* finally: `if (conn) await conn.close()` settles.  A rejection leaves
\* the finally block: db.terminate() is not called and the call rejects
\* with the error of close, whatever it was about to return or throw
CloseConn(c, ok) ==
  /\ pc[c] = "closeConn"
  /\ IF ok
     THEN /\ pc' = [pc EXCEPT ![c] = "terminate"]
          /\ sessSt' = [sessSt EXCEPT ![c] = "connClosed"]
          /\ UNCHANGED ret
     ELSE /\ pc' = [pc EXCEPT ![c] = "done"]
          /\ ret' = [ret EXCEPT ![c] = Rejected(CloseErrorMessage)]
          /\ UNCHANGED sessSt
  /\ UNCHANGED <<datastoreCache, arg, fetchSt, status, body, cleared, track>>
  /\ UNCHANGED catVars
  /\ UNCHANGED fnVars
  /\ UNCHANGED viewVars

\* finally: `if (db) await db.terminate()` settles, after which the call
\* settles: with what it was about to return or throw, or, when terminate
\* is rejected, with the error of terminate
Terminate(c, ok) ==
  /\ pc[c] = "terminate"
  /\ pc' = [pc EXCEPT ![c] = "done"]
  /\ IF ok
     THEN /\ sessSt' = [sessSt EXCEPT ![c] = "terminated"]
          /\ ret' = [ret EXCEPT ![c] =
                [kind |-> IF ret[c].kind = "returning" THEN "resolved" ELSE "rejected",
                 value |-> ret[c].value]]
     ELSE /\ ret' = [ret EXCEPT ![c] = Rejected(TerminateErrorMessage)]
          /\ UNCHANGED sessSt
  /\ UNCHANGED <<datastoreCache, arg, fetchSt, status, body, cleared, track>>
  /\ UNCHANGED catVars
  /\ UNCHANGED fnVars
  /\ UNCHANGED viewVars

\* the history of evictions after clearDatastoreCache(a)
Evicted(evicted, a) ==
  IF ~track THEN evicted
  ELSE IF NameGiven(a) THEN evicted \cup {a[1]} ELSE Names \cup RouteNames

\* clearDatastoreCache(datastoreName?)
ClearDatastoreCache(a) ==
  /\ datastoreCache' = Cleared(datastoreCache, a)
  /\ cleared' = Evicted(cleared, a)
  /\ UNCHANGED <<pc, arg, fetchSt, status, sessSt, body, ret, track>>
  /\ UNCHANGED catVars
  /\ UNCHANGED fnVars
  /\ UNCHANGED viewVars

(***************************************************************************)
(* Metacatalog: the transformation of queryMetaCatalogPq.                  *)
(***************************************************************************)
\* a.join(sep) of an array of strings
RECURSIVE Join(_, _)
Join(a, sep) ==
  IF a = <<>> THEN ""
  ELSE String(Head(a)) \o (IF Len(a) > 1 THEN sep \o Join(Tail(a), sep) ELSE "")

\* mutant: the metacatalog normalizer collapses like processField
processListField_Collapsing(value) == processField(value)

\* processListField of queryMetaCatalogPq
processListField(value) ==
  IF IsNullish(value) THEN Arr(<<>>)
  ELSE IF value.t = "vector" THEN Arr(MapString(DropNulls(value.v)))
  ELSE IF value.t = "array" THEN Arr(MapString(DropNulls(value.v)))
  ELSE IF value.t = "string" THEN
    (IF JsonParse(value.v).ok
     THEN (IF JsonParse(value.v).value.t = "array"
           THEN Arr(MapString(JsonParse(value.v).value.v))
           ELSE Arr(<<Str(String(JsonParse(value.v).value))>>))
     ELSE Arr(<<value>>))
  ELSE Arr(<<Str(String(value))>>)

\* `v || ''`
OrEmpty(v) == IF Truthy(v) THEN v ELSE Str("")

CatalogRow(row) ==
  [name |-> OrEmpty(row.name),
   model |-> processListField(row.model),
   description |-> OrEmpty(row.description),
   realm |-> processListField(row.realm),
   frequency |-> processListField(row.frequency),
   variable |-> processListField(row.variable),
   yaml |-> OrEmpty(row.yaml),
   searchableModel |-> Str(Join(processListField(row.model).v, ", ")),
   searchableRealm |-> Str(Join(processListField(row.realm).v, ", ")),
   searchableFrequency |-> Str(Join(processListField(row.frequency).v, ", ")),
   searchableVariable |-> Str(Join(processListField(row.variable).v, ", "))]

\* rawData.map(...) of queryMetaCatalogPq
TransformedCatalog(rawData) == [i \in 1..Len(rawData) |-> CatalogRow(rawData[i])]

\* what METACAT_PARQUET_QUERY can return on the metacatalog file
CatBodies ==
  { <<>>,
    << [name |-> Str("cmip6"), model |-> Vec(<<Str("ACCESS")>>), description |-> Null,
        realm |-> Vec(<<Str("ocean"), Null>>), frequency |-> Vec(<<>>),
        variable |-> Vec(<<Str("tos"), Str("sst")>>), yaml |-> Null] >> }

MetacatHttpErrorMessage(s) == "Failed to fetch parquet file: " \o ToString(s)

(***************************************************************************)
(* Metacatalog state and fetchCatalogData.                                 *)
(***************************************************************************)
CatInit ==
  /\ data = <<>>
  /\ loading = FALSE
  /\ error = Null
  /\ cpc = [k \in CatCalls |-> "idle"]
  /\ cfetch = [k \in CatCalls |-> "none"]
  /\ csess = [k \in CatCalls |-> "none"]
  /\ cret = [k \in CatCalls |-> "pending"]
  /\ afterClear = FALSE

\* mutant: the guard asks for more than one row
HaveDataAndNoError_MoreThanOne(d, e) == Len(d) > 1 /\ ~Truthy(e)

\* `data.value.length > 0 && !error.value`
HaveDataAndNoError(d, e) == Len(d) > 0 /\ ~Truthy(e)

\* fetchCatalogData(), up to its first await
FetchCatalogData(k) ==
  /\ cpc[k] = "idle"
  /\ \A j \in CatCalls : j < k => cpc[j] # "idle"
  /\ IF HaveDataAndNoError(data, error)
     THEN /\ cpc' = [cpc EXCEPT ![k] = "done"]
          /\ cret' = [cret EXCEPT ![k] = "resolved"]
          /\ UNCHANGED <<data, loading, error, cfetch, csess>>
     ELSE /\ loading' = TRUE
          /\ error' = Null
          /\ cfetch' = [cfetch EXCEPT ![k] = "pending"]
          /\ csess' = [csess EXCEPT ![k] = "pending"]
          /\ cpc' = [cpc EXCEPT ![k] = "join"]
          /\ UNCHANGED <<data, cret>>
  /\ afterClear' = FALSE
  /\ UNCHANGED dsVars
  /\ UNCHANGED fnVars
  /\ UNCHANGED viewVars

\* catch and finally of fetchCatalogData when an awaited step throws err
CatCatch(k, message, connAssigned) ==
  /\ error' = Str(message)
  /\ IF connAssigned
     THEN /\ cpc' = [cpc EXCEPT ![k] = "closeConn"]
          /\ UNCHANGED <<loading, cret>>
     ELSE /\ loading' = FALSE
          /\ cpc' = [cpc EXCEPT ![k] = "done"]
          /\ cret' = [cret EXCEPT ![k] = "resolved"]

\* Promise.all is fulfilled: db and conn are assigned and
\* queryMetaCatalogPq awaits db.registerFileBuffer
CatJoinFulfilled(k) ==
  /\ cpc' = [cpc EXCEPT ![k] = "register"]
  /\ UNCHANGED <<loading, error, cret>>

\* the response of fetchMetaCatFile arrives with status s: the promise is
\* rejected when the status is not OK, fulfilled with the bytes otherwise
CatFetchResponds(k, s) ==
  /\ cfetch[k] = "pending"
  /\ cpc[k] = "join"
  /\ IF ResponseOk(s)
     THEN /\ cfetch' = [cfetch EXCEPT ![k] = "bytes"]
          /\ IF csess[k] = "open" THEN CatJoinFulfilled(k)
             ELSE UNCHANGED <<cpc, loading, error, cret>>
     ELSE /\ cfetch' = [cfetch EXCEPT ![k] = "failed"]
          /\ CatCatch(k, MetacatHttpErrorMessage(s), FALSE)
  /\ UNCHANGED <<data, csess>>
  /\ UNCHANGED afterClear
  /\ UNCHANGED dsVars
  /\ UNCHANGED fnVars
  /\ UNCHANGED viewVars

\* fetchMetaCatFile is rejected by the transport
CatFetchFails(k) ==
  /\ cfetch[k] = "pending"
  /\ cpc[k] = "join"
  /\ cfetch' = [cfetch EXCEPT ![k] = "failed"]
  /\ CatCatch(k, TransportErrorMessage, FALSE)
  /\ UNCHANGED <<data, csess>>
  /\ UNCHANGED afterClear
  /\ UNCHANGED dsVars
  /\ UNCHANGED fnVars
  /\ UNCHANGED viewVars

CatSessionOpens(k) ==
  /\ csess[k] = "pending"
  /\ csess' = [csess EXCEPT ![k] = "open"]
  /\ IF cpc[k] = "join" /\ cfetch[k] = "bytes"
     THEN CatJoinFulfilled(k)
     ELSE UNCHANGED <<cpc, loading, error, cret>>
  /\ UNCHANGED <<data, cfetch>>
  /\ UNCHANGED afterClear
  /\ UNCHANGED dsVars
  /\ UNCHANGED fnVars
  /\ UNCHANGED viewVars

CatSessionFails(k) ==
  /\ csess[k] = "pending"
  /\ csess' = [csess EXCEPT ![k] = "failed"]
  /\ IF cpc[k] = "join"
     THEN CatCatch(k, EngineErrorMessage, FALSE)
     ELSE UNCHANGED <<cpc, loading, error, cret>>
  /\ UNCHANGED <<data, cfetch>>
  /\ UNCHANGED afterClear
  /\ UNCHANGED dsVars
  /\ UNCHANGED fnVars
  /\ UNCHANGED viewVars

\* `await db.registerFileBuffer('metacatalog.parquet', uint8Array)` settles
CatRegisterSettles(k, ok) ==
  /\ cpc[k] = "register"
  /\ IF ok
     THEN /\ cpc' = [cpc EXCEPT ![k] = "select"]
          /\ UNCHANGED <<loading, error, cret>>
     ELSE CatCatch(k, QueryErrorMessage, TRUE)
  /\ UNCHANGED <<data, cfetch, csess>>
  /\ UNCHANGED afterClear
  /\ UNCHANGED dsVars
  /\ UNCHANGED fnVars
  /\ UNCHANGED viewVars

\* `await conn.query(METACAT_PARQUET_QUERY)` settles; on success the rows
\* are transformed and assigned to data.value
CatQuerySettles(k, ok, b) ==
  /\ cpc[k] = "select"
  /\ IF ok
     THEN /\ data' = TransformedCatalog(b)
          /\ cpc' = [cpc EXCEPT ![k] = "closeConn"]
          /\ UNCHANGED <<loading, error, cret>>
     ELSE /\ CatCatch(k, QueryErrorMessage, TRUE)
          /\ UNCHANGED data
  /\ UNCHANGED <<cfetch, csess>>
  /\ UNCHANGED afterClear
  /\ UNCHANGED dsVars
  /\ UNCHANGED fnVars
  /\ UNCHANGED viewVars

\* finally: `if (conn) await conn.close()` settles.  A rejection leaves
\* the finally block: neither db.terminate() nor `loading.value = false`
\* is executed and fetchCatalogData rejects
CatCloseConn(k, ok) ==
  /\ cpc[k] = "closeConn"
  /\ IF ok
     THEN /\ cpc' = [cpc EXCEPT ![k] = "terminate"]
          /\ csess' = [csess EXCEPT ![k] = "connClosed"]
          /\ UNCHANGED cret
     ELSE /\ cpc' = [cpc EXCEPT ![k] = "done"]
          /\ cret' = [cret EXCEPT ![k] = "rejected"]
          /\ UNCHANGED csess
  /\ UNCHANGED <<data, loading, error, cfetch>>
  /\ UNCHANGED afterClear
  /\ UNCHANGED dsVars
  /\ UNCHANGED fnVars
  /\ UNCHANGED viewVars

\* finally: `if (db) await db.terminate()` settles, then
\* `loading.value = false`; when terminate is rejected the assignment is
\* not executed and fetchCatalogData rejects
CatTerminate(k, ok) ==
  /\ cpc[k] = "terminate"
  /\ cpc' = [cpc EXCEPT ![k] = "done"]
  /\ IF ok
     THEN /\ csess' = [csess EXCEPT ![k] = "terminated"]
          /\ loading' = FALSE
          /\ cret' = [cret EXCEPT ![k] = "resolved"]
     ELSE /\ cret' = [cret EXCEPT ![k] = "rejected"]
          /\ UNCHANGED <<csess, loading>>
  /\ UNCHANGED <<data, error, cfetch>>
  /\ UNCHANGED afterClear
  /\ UNCHANGED dsVars
  /\ UNCHANGED fnVars
  /\ UNCHANGED viewVars

clearData ==
  /\ data' = <<>>
  /\ error' = Null
  /\ UNCHANGED <<loading, cpc, cfetch, csess, cret>>
  /\ afterClear' = TRUE
  /\ UNCHANGED dsVars
  /\ UNCHANGED fnVars
  /\ UNCHANGED viewVars

(***************************************************************************)
(* The transformations applied on their own: one raw cell given to         *)
(* processField or to processListField, one array of rows given to         *)
(* generateFilterOptions.                                                  *)
(***************************************************************************)
\* the elements of a list-like cell
Elems == {Null, Str("a"), Str("b"), Str(""), Num(0)}

\* the arrays of at most n elements
ListsUpTo(n) == UNION {[1..k -> Elems] : k \in 0..n}

\* raw cell values: lists and engine vectors, strings (JSON arrays, JSON
\* scalars, not JSON), null, undefined and other scalars
RawCells ==
  {Arr(a) : a \in ListsUpTo(MaxElems)} \cup {Vec(a) : a \in ListsUpTo(MaxElems)}
  \cup {Str(t) : t \in {"[]", "[\"a\"]", "[\"a\",\"b\"]", "[null,\"a\"]", "[0]", "[\"\"]",
                        "null", "7", "true", "\"a\"", "ocean", "a,b", ""}}
  \cup {Null, Undefined, Num(7), Num(0), Bool(TRUE), Bool(FALSE)}

\* the cells of the rows given to generateFilterOptions
FilterCells ==
  {Null, Str("ocean"), Str(""), Str(" "), Num(0),
   Arr(<<Str("ocean"), Str("atmos")>>), Arr(<<Str("ocean")>>), Arr(<<>>),
   Arr(<<Null, Str("atmos"), Str(" ")>>)}

\* rows of one column and rows of two columns, as their entries
FilterRows ==
  {<< <<"realm", v>> >> : v \in FilterCells}
  \cup {<< <<"realm", v>>, <<"model", w>> >> :
          v \in {Str("ocean"), Arr(<<>>)}, w \in {Str("b"), Null}}

\* [{realm: ["ocean","atmos"]}, {realm: ["ocean"]}, {realm: []}]
ExampleRows ==
  << << <<"realm", Arr(<<Str("ocean"), Str("atmos")>>)>> >>,
     << <<"realm", Arr(<<Str("ocean")>>)>> >>,
     << <<"realm", Arr(<<>>)>> >> >>

RowArrays == UNION {[1..k -> FilterRows] : k \in 0..MaxRows} \cup {ExampleRows}

NoInput == [kind |-> "none"]
CellInput(v) == [kind |-> "cell", v |-> v]
\* an array of rows: a value like the others, tagged by its type
RowArray(rows) == [t |-> "rows", v |-> rows]
RowsInput(rows) == [kind |-> "rows", v |-> RowArray(rows)]

FiltersInput(filters) == [kind |-> "filters", v |-> [t |-> "filters", v |-> filters]]

(***************************************************************************)
(* The filters of the detail view and the query of the URL.  An object     *)
(* with string keys is the sequence of its entries <<key, value>> in       *)
(* insertion order; the values of a filter are strings.                    *)
(***************************************************************************)
\* key.endsWith(suffix)
EndsWith(key, suffix) ==
  /\ Len(key) >= Len(suffix)
  /\ SubSeq(key, Len(key) - Len(suffix) + 1, Len(key)) = suffix

\* key.replace(pattern, ''): the first occurrence of the pattern is removed
ReplaceFirst(key, pattern) ==
  LET at == {i \in 1..(Len(key) - Len(pattern) + 1) :
               SubSeq(key, i, i + Len(pattern) - 1) = pattern}
  IN IF at = {} THEN key
     ELSE LET i == CHOOSE j \in at : \A m \in at : j <= m
          IN SubSeq(key, 1, i - 1) \o SubSeq(key, i + Len(pattern), Len(key))

\* value.split(sep) for a separator of one character
RECURSIVE Split(_, _)
Split(value, sep) ==
  LET at == {i \in 1..Len(value) : SubSeq(value, i, i) = sep}
  IN IF at = {} THEN <<value>>
     ELSE LET i == CHOOSE j \in at : \A m \in at : j <= m
          IN <<SubSeq(value, 1, i - 1)>> \o Split(SubSeq(value, i + 1, Len(value)), sep)

\* object[key] = value
SetEntry(object, key, value) ==
  IF \E i \in 1..Len(object) : object[i][1] = key
  THEN [i \in 1..Len(object) |-> IF object[i][1] = key THEN <<key, value>> ELSE object[i]]
  ELSE Append(object, <<key, value>>)

\* the query updateUrlWithFilters gives to router.replace (the parameters
\* copyQueryLink sets on the URL)
RECURSIVE updateUrlWithFilters(_)
updateUrlWithFilters(currentFilters) ==
  IF currentFilters = <<>> THEN <<>>
  ELSE LET column == currentFilters[Len(currentFilters)][1]
           values == currentFilters[Len(currentFilters)][2]
           query == updateUrlWithFilters(SubSeq(currentFilters, 1, Len(currentFilters) - 1))
       IN IF Len(values) > 0
          THEN SetEntry(query, column \o "_filter", Str(Join(values, ",")))
          ELSE query

\* the filters initializeFiltersFromUrl assigns to currentFilters
RECURSIVE initializeFiltersFromUrl(_)
initializeFiltersFromUrl(query) ==
  IF query = <<>> THEN <<>>
  ELSE LET key == query[Len(query)][1]
           value == query[Len(query)][2]
           filters == initializeFiltersFromUrl(SubSeq(query, 1, Len(query) - 1))
       IN IF EndsWith(key, "_filter") /\ value.t = "string"
          THEN SetEntry(filters, ReplaceFirst(key, "_filter"),
                 LET parts == Split(value.v, ",")
                 IN SelectSeq([i \in 1..Len(parts) |-> Str(parts[i])],
                              LAMBDA v : ~TrimsToEmpty(v.v)))
          ELSE filters

\* the values a user can select: options are non-blank strings
FilterValues == {Str("ocean"), Str("atmos"), Str("a,b")}
SelectedLists == UNION {[1..k -> FilterValues] : k \in 0..MaxElems}
\* filter maps over the columns realm and model
FilterMaps ==
  {<<>>}
  \cup {<< <<"realm", v>> >> : v \in SelectedLists}
  \cup {<< <<"realm", v>>, <<"model", w>> >> : v \in SelectedLists, w \in SelectedLists}

FnIdle == input = NoInput /\ op = "none" /\ result = Undefined

FnInit ==
  /\ input \in {CellInput(v) : v \in RawCells} \cup {RowsInput(rows) : rows \in RowArrays}
              \cup {FiltersInput(f) : f \in FilterMaps}
  /\ op = "none"
  /\ result = Undefined

RunProcessField ==
  /\ op = "none" /\ input.kind = "cell"
  /\ op' = "processField"
  /\ result' = processField(input.v)
  /\ UNCHANGED <<input, route>>
  /\ UNCHANGED <<dsVars, catVars>>

RunProcessListField ==
  /\ op = "none" /\ input.kind = "cell"
  /\ op' = "processListField"
  /\ result' = processListField(input.v)
  /\ UNCHANGED <<input, route>>
  /\ UNCHANGED <<dsVars, catVars>>

RunGenerateFilterOptions ==
  /\ op = "none" /\ input.kind = "rows"
  /\ op' = "generateFilterOptions"
  /\ result' = generateFilterOptions(input.v.v)
  /\ UNCHANGED <<input, route>>
  /\ UNCHANGED <<dsVars, catVars>>

\* the filters are written to the URL and read back from it
RunFilterRoundTrip ==
  /\ op = "none" /\ input.kind = "filters"
  /\ op' = "filterRoundTrip"
  /\ result' = [t |-> "filters", v |-> initializeFiltersFromUrl(updateUrlWithFilters(input.v.v))]
  /\ UNCHANGED <<input, route>>
  /\ UNCHANGED <<dsVars, catVars>>

FnNext ==
  \/ RunProcessField
  \/ RunProcessListField
  \/ RunGenerateFilterOptions
  \/ RunFilterRoundTrip

InitFn == DsInit /\ CatInit /\ track = FALSE /\ route = Undefined /\ FnInit

FnSpec == InitFn /\ [][FnNext]_vars

Init == DsInit /\ CatInit /\ track = FALSE /\ route = Undefined /\ FnIdle

Next ==
  \/ \E c \in Calls, n \in Names : LoadDatastore(c, n)
  \/ \E c \in Calls : Poll(c)
  \/ \E c \in Calls, s \in Statuses : FetchResponds(c, s)
  \/ \E c \in Calls : FetchFails(c)
  \/ \E c \in Calls : SessionOpens(c)
  \/ \E c \in Calls : SessionFails(c)
  \/ \E c \in Calls, ok \in BOOLEAN : BufferSettles(c, ok)
  \/ \E c \in Calls, ok \in BOOLEAN : RegisterSettles(c, ok)
  \/ \E c \in Calls, ok \in BOOLEAN, b \in Bodies : DescribeSettles(c, ok, b)
  \/ \E c \in Calls, ok \in BOOLEAN : SelectSettles(c, ok)
  \/ \E c \in Calls, ok \in BOOLEAN : CloseConn(c, ok)
  \/ \E c \in Calls, ok \in BOOLEAN : Terminate(c, ok)
  \/ \E a \in ClearArgs : ClearDatastoreCache(a)

Spec == Init /\ [][Next]_vars

\* the same program, in behaviours that record the history of evictions
InitHistory == DsInit /\ CatInit /\ track = TRUE /\ route = Undefined /\ FnIdle

HistorySpec == InitHistory /\ [][Next]_vars

CatNext ==
  \/ \E k \in CatCalls : FetchCatalogData(k)
  \/ \E k \in CatCalls, s \in Statuses : CatFetchResponds(k, s)
  \/ \E k \in CatCalls : CatFetchFails(k)
  \/ \E k \in CatCalls : CatSessionOpens(k)
  \/ \E k \in CatCalls : CatSessionFails(k)
  \/ \E k \in CatCalls, ok \in BOOLEAN : CatRegisterSettles(k, ok)
  \/ \E k \in CatCalls, ok \in BOOLEAN, b \in CatBodies : CatQuerySettles(k, ok, b)
  \/ \E k \in CatCalls, ok \in BOOLEAN : CatCloseConn(k, ok)
  \/ \E k \in CatCalls, ok \in BOOLEAN : CatTerminate(k, ok)
  \/ clearData

CatSpec == Init /\ [][CatNext]_vars

(***************************************************************************)
(* The detail view (DatastoreDetail) and the prefetch of the catalog       *)
(* modal.  route is useRoute().params.name, the parameter of the current   *)
(* route of the router: the view is mounted while it is defined.           *)
(***************************************************************************)
\* the argument list of a call f(v): f(undefined) is f()
ArgOf(v) == IF v = Undefined THEN <<>> ELSE <<v.v>>

\* `existingCache && existingCache.data.length > 0`
HasRows(cache, name) == Has(cache, name) /\ Len(cache[name].data) > 0

\* loadDatastore() of the view for the dataset `name`, on the cache `cache`:
\* nothing to load when the cache has rows, else the store is called
ViewLoadDatastore(cache, evicted, c, name) ==
  IF HasRows(cache, name)
  THEN /\ datastoreCache' = cache
       /\ cleared' = evicted
       /\ UNCHANGED <<pc, arg, fetchSt, status, sessSt, body, ret, track>>
       /\ UNCHANGED catVars
       /\ UNCHANGED fnVars
  ELSE LoadDatastoreOn(cache, evicted, c, name)

\* the watcher of the catalog modal: prefetch of the dataset shown
Prefetch(c, name) ==
  /\ route = Undefined
  /\ LoadDatastore(c, name)

\* the route becomes /datastore/name: the view mounts (onMounted)
OpenDetail(c, name) ==
  /\ route = Undefined
  /\ route' = Str(name)
  /\ ViewLoadDatastore(datastoreCache, cleared, c, name)

\* the route parameter changes while the view is mounted: the watcher
\* evicts the old name and loads the new one
RouteNameChanges(c, newName) ==
  /\ route # Undefined
  /\ route.v # newName
  /\ route' = Str(newName)
  /\ ViewLoadDatastore(Cleared(datastoreCache, <<route.v>>),
                       Evicted(cleared, <<route.v>>), c, newName)

\* the Retry and Refresh buttons of the view
Refresh(c) ==
  /\ route # Undefined
  /\ ViewLoadDatastore(datastoreCache, cleared, c, route.v)
  /\ UNCHANGED route

\* the route becomes / : the view unmounts and onUnmounted runs cleanup(),
\* which reads datastoreName.value, computed from the route of the router
\* as it is then
LeaveDetail ==
  /\ route # Undefined
  /\ route' = Undefined
  /\ datastoreCache' = Cleared(datastoreCache, ArgOf(route'))
  /\ cleared' = Evicted(cleared, ArgOf(route'))
  /\ UNCHANGED <<pc, arg, fetchSt, status, sessSt, body, ret, track>>
  /\ UNCHANGED catVars
  /\ UNCHANGED fnVars

ViewNext ==
  \/ \E c \in Calls, n \in RouteNames : Prefetch(c, n)
  \/ \E c \in Calls, n \in RouteNames : OpenDetail(c, n)
  \/ \E c \in Calls, n \in RouteNames : RouteNameChanges(c, n)
  \/ \E c \in Calls : Refresh(c)
  \/ LeaveDetail
  \/ \E c \in Calls : Poll(c)
  \/ \E c \in Calls, s \in Statuses : FetchResponds(c, s)
  \/ \E c \in Calls : FetchFails(c)
  \/ \E c \in Calls : SessionOpens(c)
  \/ \E c \in Calls : SessionFails(c)
  \/ \E c \in Calls, ok \in BOOLEAN : BufferSettles(c, ok)
  \/ \E c \in Calls, ok \in BOOLEAN : RegisterSettles(c, ok)
  \/ \E c \in Calls, ok \in BOOLEAN, b \in Bodies : DescribeSettles(c, ok, b)
  \/ \E c \in Calls, ok \in BOOLEAN : SelectSettles(c, ok)
  \/ \E c \in Calls, ok \in BOOLEAN : CloseConn(c, ok)
  \/ \E c \in Calls, ok \in BOOLEAN : Terminate(c, ok)

ViewSpec == Init /\ [][ViewNext]_vars

(***************************************************************************)
(* One load and the evictions that can fall into it.  The promises the     *)
(* load awaits (fetch, the engine, the response body, the queries, close   *)
(* and terminate) settle: a step of the load that can be taken is taken.   *)
(***************************************************************************)
\* the events that settle a promise awaited by call c
Settles(c) ==
  \/ \E s \in Statuses : FetchResponds(c, s)
  \/ FetchFails(c)
  \/ SessionOpens(c)
  \/ SessionFails(c)
  \/ \E ok \in BOOLEAN : BufferSettles(c, ok)
  \/ \E ok \in BOOLEAN : RegisterSettles(c, ok)
  \/ \E ok \in BOOLEAN, b \in Bodies : DescribeSettles(c, ok, b)
  \/ \E ok \in BOOLEAN : SelectSettles(c, ok)
  \/ \E ok \in BOOLEAN : CloseConn(c, ok)
  \/ \E ok \in BOOLEAN : Terminate(c, ok)

EvictNext ==
  \/ \E n \in Names : LoadDatastore(1, n)
  \/ Settles(1)
  \/ \E a \in ClearArgs : ClearDatastoreCache(a)

EvictSpec == InitHistory /\ [][EvictNext]_vars /\ WF_vars(Settles(1))

\* the runs in which clearDatastoreCache is never called
NoClearNext ==
  \/ \E c \in Calls, n \in Names : LoadDatastore(c, n)
  \/ \E c \in Calls : Poll(c)
  \/ \E c \in Calls : Settles(c)

NoClearSpec == Init /\ [][NoClearNext]_vars

(***************************************************************************)
(* Runs of unboundedly many calls.  Two calls can be pending at a time; a  *)
(* call that has settled, and whose session has settled, is forgotten and  *)
(* its place is taken by a later call.  The promises a load awaits settle  *)
(* and the timer of a polling loop keeps firing.                           *)
(***************************************************************************)
FairCalls == {1, 2}

\* the caller is done with call c: the next call takes its place
Forget(c) ==
  /\ pc[c] = "done"
  /\ sessSt[c] # "pending"
  /\ pc' = [pc EXCEPT ![c] = "idle"]
  /\ arg' = [arg EXCEPT ![c] = Unset]
  /\ fetchSt' = [fetchSt EXCEPT ![c] = "none"]
  /\ status' = [status EXCEPT ![c] = 0]
  /\ sessSt' = [sessSt EXCEPT ![c] = "none"]
  /\ body' = [body EXCEPT ![c] = NoBody]
  /\ ret' = [ret EXCEPT ![c] = Pending]
  /\ UNCHANGED <<datastoreCache, cleared, track>>
  /\ UNCHANGED catVars
  /\ UNCHANGED fnVars
  /\ UNCHANGED viewVars

FairNext ==
  \/ \E c \in FairCalls, n \in Names : LoadDatastore(c, n)
  \/ \E c \in FairCalls : Poll(c)
  \/ \E c \in FairCalls : Settles(c)
  \/ \E a \in ClearArgs : ClearDatastoreCache(a)
  \/ \E c \in FairCalls : Forget(c)

FairSpec ==
  /\ Init /\ [][FairNext]_vars
  /\ \A c \in FairCalls : WF_vars(Settles(c)) /\ WF_vars(Poll(c))

(***************************************************************************)
(* Properties of the datastore cache.                                      *)
(***************************************************************************)
\* s contains sub as a substring
Contains(s, sub) ==
  \E i \in 1..(Len(s) - Len(sub) + 1) : SubSeq(s, i, i + Len(sub) - 1) = sub

\* the step is the synchronous start of call c, loadDatastore(n)
CallStep(c, n) == pc[c] = "idle" /\ pc'[c] # "idle" /\ arg'[c] = n

\* C1: in every reachable state each dataset name has at most one load in
\* flight (placeholder written, final cache write not yet done).
C1_AtMostOneInFlight ==
  \A n \in Names : Cardinality({c \in Calls : InFlight(c) /\ arg[c] = n}) <= 1

\* the poller c2 returns in this step, and the record it finds in the cache
\* was written by the load of call c1
PollerReturnsLoadOf(c2, c1) ==
  /\ c1 # c2
  /\ pc[c2] = "poll" /\ pc'[c2] = "done"
  /\ arg[c2] \in DOMAIN datastoreCache
  /\ datastoreCache[arg[c2]].lastFetched[1] = c1

\* C2 as stated: a call that arrived while a load was in flight issues no
\* fetch of its own, and it and the initiating call both resolve to the same
\* final record, whether that record is Ready or Failed.
C2_BothResolveToSameRecord ==
  [][\A c1, c2 \in Calls : PollerReturnsLoadOf(c2, c1) =>
        /\ fetchSt'[c2] = "none" /\ fetchSt'[c1] # "none"
        /\ ret'[c2].kind = "resolved"
        /\ ret'[c1].kind \in {"returning", "resolved"}
        /\ ret'[c1].value = ret'[c2].value]_vars

\* whether the session of call c was opened (initializeDuckDB completed)
SessionOpened(c) == sessSt[c] \in {"open", "connClosed", "terminated"}

\* C3: when a load has ended, the session it opened has been closed
\* (conn.close and db.terminate), on every exit path.
C3_OpenedSessionIsClosed ==
  \A c \in Calls : (pc[c] = "done" /\ SessionOpened(c)) => sessSt[c] = "terminated"

\* C4: a call made while the cache holds a Ready record for the name
\* (not loading, no error), whatever its number of rows, returns that
\* record, issues no fetch, opens no session and leaves the cache unchanged.
C4_ReadyRecordIsReturned ==
  [][\A c \in Calls, n \in Names :
        (/\ CallStep(c, n)
         /\ n \in DOMAIN datastoreCache
         /\ ~datastoreCache[n].loading
         /\ datastoreCache[n].error = Null) =>
        /\ pc'[c] = "done"
        /\ ret'[c] = Resolved(datastoreCache[n])
        /\ fetchSt'[c] = "none" /\ sessSt'[c] = "none"
        /\ datastoreCache' = datastoreCache]_vars

\* C5: a step in which a started load fails leaves a Failed record in the
\* cache for its name (loading false, an error message, no rows, total 0);
\* when the failure is a non-OK status the message contains the status.
C5_FailureWritesFailedRecord ==
  [][\A c \in Calls :
        (InFlight(c) /\ ret'[c].kind \in {"throwing", "rejected"}) =>
        /\ arg[c] \in DOMAIN datastoreCache'
        /\ datastoreCache'[arg[c]].loading = FALSE
        /\ datastoreCache'[arg[c]].error.t = "string"
        /\ datastoreCache'[arg[c]].data = <<>>
        /\ datastoreCache'[arg[c]].totalRecords = 0
        /\ (/\ pc[c] = "join"
            /\ fetchSt'[c] = "response" /\ sessSt'[c] = "open"
            /\ ~ResponseOk(status'[c])) =>
              Contains(datastoreCache'[arg[c]].error.v, ToString(status'[c]))]_vars

\* a load has failed on status 404 and its Failed record names the status
C5_Witness ==
  \E c \in Calls :
    /\ ret[c].kind = "rejected" /\ status[c] = 404
    /\ arg[c] \in DOMAIN datastoreCache
    /\ datastoreCache[arg[c]].lastFetched = <<c, "failed">>
    /\ Contains(datastoreCache[arg[c]].error.v, "404")

\* C6: a call made while the record of the name is Failed writes a new
\* Loading placeholder and issues a fresh fetch, as if the entry were
\* absent; and a load that succeeds leaves its slot Ready with error null.
C6_FailedDoesNotBlockRetry ==
  [][/\ \A c \in Calls, n \in Names :
          (/\ CallStep(c, n)
           /\ n \in DOMAIN datastoreCache
           /\ ~datastoreCache[n].loading
           /\ datastoreCache[n].error # Null) =>
          /\ pc'[c] = "join"
          /\ fetchSt'[c] = "pending" /\ sessSt'[c] = "pending"
          /\ datastoreCache'[n].loading /\ datastoreCache'[n].error = Null
          /\ datastoreCache'[n].data = <<>>
          /\ datastoreCache'[n].lastFetched[1] = c
     /\ \A c \in Calls :
          (pc[c] = "select" /\ ret'[c].kind = "returning") =>
          /\ arg[c] \in DOMAIN datastoreCache'
          /\ datastoreCache'[arg[c]] = ret'[c].value
          /\ ~datastoreCache'[arg[c]].loading
          /\ datastoreCache'[arg[c]].error = Null]_vars

\* a first load of a name failed, and a later call for the same name has
\* loaded it: the slot is Ready
C6_Witness ==
  \E c1, c2 \in Calls :
    /\ c1 < c2 /\ arg[c1] = arg[c2]
    /\ ret[c1].kind = "rejected"
    /\ arg[c2] \in DOMAIN datastoreCache
    /\ datastoreCache[arg[c2]].lastFetched = <<c2, "loaded">>
    /\ datastoreCache[arg[c2]].error = Null

\* C7: a call that finds the record Loading issues no fetch and opens no
\* session; while the record is Loading it does not return; when it
\* returns, it returns the record then in the cache, or a record with
\* loading false and the error "Datastore not found" if there is none.
C7_WaiterPollsUntilNotLoading ==
  [][\A c \in Calls :
       /\ \A n \in Names :
            (CallStep(c, n) /\ n \in DOMAIN datastoreCache /\ datastoreCache[n].loading) =>
            /\ pc'[c] = "poll"
            /\ fetchSt'[c] = "none" /\ sessSt'[c] = "none"
            /\ datastoreCache' = datastoreCache
       /\ pc[c] = "poll" =>
            /\ fetchSt'[c] = "none" /\ sessSt'[c] = "none"
            /\ (arg[c] \in DOMAIN datastoreCache /\ datastoreCache[arg[c]].loading) =>
                  pc'[c] = "poll"
            /\ pc'[c] \in {"poll", "done"}
            /\ pc'[c] = "done" =>
                  /\ ret'[c].kind = "resolved"
                  /\ datastoreCache' = datastoreCache
                  /\ IF arg[c] \in DOMAIN datastoreCache
                     THEN ret'[c].value = datastoreCache[arg[c]]
                     ELSE /\ ret'[c].value.loading = FALSE
                          /\ ret'[c].value.error = Str("Datastore not found")
                          /\ ret'[c].value.data = <<>>]_vars

\* a waiting call has returned the placeholder: the entry had vanished
C7_Witness ==
  \E c \in Calls :
    /\ pc[c] = "done" /\ fetchSt[c] = "none" /\ ret[c].kind = "resolved"
    /\ ret[c].value.error = Str("Datastore not found")
    /\ ret[c].value.loading = FALSE

\* C8: clearDatastoreCache(name) removes the entry of exactly that name,
\* for every string name, the empty string included, and leaves the other
\* entries as they are; clearDatastoreCache() leaves the cache empty.
C8_ClearRemovesExactlyTheName ==
  /\ \A n \in Names :
       /\ DOMAIN Cleared(datastoreCache, <<n>>) = DOMAIN datastoreCache \ {n}
       /\ \A m \in DOMAIN datastoreCache \ {n} :
            Cleared(datastoreCache, <<n>>)[m] = datastoreCache[m]
  /\ Cleared(datastoreCache, <<>>) = <<>>

\* C9: once a name has been evicted, the lookup returns null and the next
\* loadDatastore call of that name issues a new fetch (no data fetched
\* before the eviction is returned), under any interleaving.
C9_EvictionCorrectness ==
  /\ [](\A n \in cleared : getDatastoreFromCache(n) = Null)
  /\ [][\A c \in Calls, n \in Names :
          (CallStep(c, n) /\ n \in cleared) =>
            /\ fetchSt'[c] = "pending"
            /\ ret'[c].kind = "pending"]_vars

(***************************************************************************)
(* Properties of the metacatalog state.                                    *)
(***************************************************************************)
\* C10: a fetchCatalogData call made while data is non-empty and no error
\* is recorded issues no fetch, opens no session and leaves data, loading
\* and error unchanged.
C10_RefetchIsSuppressed ==
  [][\A k \in CatCalls :
        (cpc[k] = "idle" /\ cpc'[k] # "idle" /\ Len(data) > 0 /\ error = Null) =>
        /\ cpc'[k] = "done"
        /\ cfetch'[k] = "none" /\ csess'[k] = "none"
        /\ data' = data /\ loading' = loading /\ error' = error]_vars

\* two successive calls, the first having loaded rows: one fetch in all
C10_Witness ==
  /\ cpc[1] = "done" /\ cfetch[1] = "bytes"
  /\ cpc[2] = "done" /\ cfetch[2] = "none"
  /\ Len(data) > 0 /\ error = Null

\* whether the session of metacatalog call k was opened
CatSessionOpened(k) == csess[k] \in {"open", "connClosed", "terminated"}

\* C11: when a metacatalog load has ended, the session it opened has been
\* closed (conn.close and db.terminate), on every exit path, the path where
\* the fetch fails while the session open succeeds included.
C11_CatOpenedSessionIsClosed ==
  \A k \in CatCalls : (cpc[k] = "done" /\ CatSessionOpened(k)) => csess[k] = "terminated"

\* C12: every record of the dataset cache has an error message exactly when
\* it was written by a failed load; Loading records and records written by
\* a successful load have error null, and no record is loading with an
\* error.
C12_ErrorIffFailed ==
  \A n \in DOMAIN datastoreCache :
    /\ (datastoreCache[n].error # Null) <=> (datastoreCache[n].lastFetched[2] = "failed")
    /\ datastoreCache[n].loading => datastoreCache[n].error = Null
    /\ datastoreCache[n].lastFetched[2] = "loaded" =>
         (~datastoreCache[n].loading /\ datastoreCache[n].error = Null)
    /\ ~(datastoreCache[n].loading /\ datastoreCache[n].error # Null)

\* the cache holds a Failed record with its message next to a record of
\* another name that has no error
C12_Witness ==
  \E n, m \in DOMAIN datastoreCache :
    /\ n # m
    /\ datastoreCache[n].lastFetched[2] = "failed"
    /\ datastoreCache[n].error.t = "string"
    /\ datastoreCache[m].lastFetched[2] \in {"initial", "loaded"}
    /\ datastoreCache[m].error = Null

(***************************************************************************)
(* Properties of the detail view.                                          *)
(***************************************************************************)
\* C13: a step in which the user leaves the detail view of dataset x (the
\* route name changes from x to another name, or the view unmounts on a
\* route without a name) removes the cache entry of x and leaves the
\* entries of the other datasets in place.
C13_LeavingEvictsOnlyThatDataset ==
  [][\A x \in RouteNames :
        (route = Str(x) /\ route' # Str(x)) =>
        /\ x \notin DOMAIN datastoreCache'
        /\ \A m \in DOMAIN datastoreCache :
             (m # x /\ Str(m) # route') =>
             (m \in DOMAIN datastoreCache' /\ datastoreCache'[m] = datastoreCache[m])]_vars

(***************************************************************************)
(* Properties of the transformations.                                      *)
(***************************************************************************)
\* C14: processField on a list or an engine vector, whatever its elements:
\* with the null elements dropped, an empty list gives null, a list of one
\* element gives that element as a string, a longer list gives the list of
\* its elements as strings.
C14_CollapseByLength ==
  (op = "processField" /\ input.v.t \in {"array", "vector"}) =>
    /\ Len(DropNulls(input.v.v)) = 0 => result = Null
    /\ Len(DropNulls(input.v.v)) = 1 => result = Str(String(DropNulls(input.v.v)[1]))
    /\ Len(DropNulls(input.v.v)) >= 2 => result = Arr(MapString(DropNulls(input.v.v)))

\* whether v is an array whose elements are all strings
IsStringArray(v) == v.t = "array" /\ \A i \in 1..Len(v.v) : v.v[i].t = "string"

\* C15: processListField returns a sequence of strings (possibly empty) for
\* every raw cell value: never null, undefined or a bare scalar.
C15_ListFieldIsAlwaysSequence ==
  op = "processListField" => IsStringArray(result)

\* a null cell has been normalized to the empty sequence
C15_Witness ==
  op = "processListField" /\ input.v = Null /\ result = Arr(<<>>)

\* the strings that occur in the column of the rows, as a scalar cell or as
\* an element of a sequence cell, non-null and non-empty after trimming
Occurring(rows, column) ==
  LET cells == {f[2] : f \in {g \in Entries(rows) : g[1] = column}}
      scalars == {v \in cells : v.t # "array"}
      elements == UNION {{v.v[i] : i \in 1..Len(v.v)} : v \in {w \in cells : w.t = "array"}}
  IN {String(v) : v \in {w \in scalars \cup elements :
                           ~IsNullish(w) /\ ~TrimsToEmpty(String(w))}}

\* C16: generateFilterOptions maps each column of the rows to the distinct
\* strings that occur in it (scalar cells and elements of sequence cells,
\* nulls and blank strings left out), in ascending order without
\* duplicates; the rows of the example give realm -> ["atmos", "ocean"].
C16_FilterOptionsAreTheSortedDistinctValues ==
  op = "generateFilterOptions" =>
    /\ DOMAIN result = {e[1] : e \in Entries(input.v.v)}
    /\ \A column \in DOMAIN result :
         /\ {result[column][i] : i \in 1..Len(result[column])} = Occurring(input.v.v, column)
         /\ \A i \in 1..(Len(result[column]) - 1) :
              StrLess(result[column][i], result[column][i + 1])
    /\ input.v.v = ExampleRows => result = [realm |-> <<"atmos", "ocean">>]

\* the options of the rows of the example have been computed
C16_Witness ==
  /\ op = "generateFilterOptions" /\ input.v.v = ExampleRows
  /\ result["realm"] = <<"atmos", "ocean">>

(***************************************************************************)
(* Properties of the datastore cache: the placeholder and the final write. *)
(***************************************************************************)
\* the cache has no record of n that a call would return or wait for:
\* none at all, or one that is not loading and has no rows
NeitherUsableNorLoading(n) ==
  \/ n \notin DOMAIN datastoreCache
  \/ (~datastoreCache[n].loading /\ Len(datastoreCache[n].data) = 0)

\* C17: the step in which a call finds neither a usable record nor a
\* Loading record is the step that writes its Loading placeholder and
\* starts the fetch and the session open: at the end of the step the record
\* of the name is the placeholder of that call.
C17_PlaceholderWrittenWithTheCheck ==
  [][\A c \in Calls, n \in Names :
        (CallStep(c, n) /\ NeitherUsableNorLoading(n)) =>
        /\ n \in DOMAIN datastoreCache'
        /\ datastoreCache'[n].loading
        /\ datastoreCache'[n].lastFetched = <<c, "initial">>
        /\ fetchSt'[c] = "pending" /\ sessSt'[c] = "pending"
        /\ \A m \in DOMAIN datastoreCache \ {n} :
             m \in DOMAIN datastoreCache' /\ datastoreCache'[m] = datastoreCache[m]]_vars

\* a call has written its placeholder and started its fetch, and a later
\* call of the same name has found that placeholder and waits
C17_Witness ==
  \E c1, c2 \in Calls :
    /\ c1 < c2 /\ arg[c1] = arg[c2]
    /\ pc[c1] = "join" /\ fetchSt[c1] = "pending"
    /\ arg[c1] \in DOMAIN datastoreCache
    /\ datastoreCache[arg[c1]].lastFetched = <<c1, "initial">>
    /\ pc[c2] = "poll" /\ fetchSt[c2] = "none"

\* C18: an eviction that falls into a load of the name does not cancel the
\* load: the eviction step leaves the load as it is, the load goes on to
\* its final write, and that write creates the entry of the name again
\* (Ready or Failed) although it had been evicted.
C18_EvictionDoesNotCancel ==
  /\ [][\A c \in Calls :
          /\ (InFlight(c) /\ arg[c] \in DOMAIN datastoreCache
                /\ arg[c] \notin DOMAIN datastoreCache') =>
               (pc'[c] = pc[c] /\ fetchSt'[c] = fetchSt[c]
                  /\ sessSt'[c] = sessSt[c] /\ ret'[c] = ret[c])
          /\ (InFlight(c) /\ ~InFlight(c)' /\ arg[c] \notin DOMAIN datastoreCache) =>
               /\ arg[c] \in DOMAIN datastoreCache'
               /\ ~datastoreCache'[arg[c]].loading
               /\ datastoreCache'[arg[c]].lastFetched \in {<<c, "loaded">>, <<c, "failed">>}]_vars
  /\ \A c \in Calls :
       (InFlight(c) /\ arg[c] \in cleared) ~>
         (~InFlight(c) /\ arg[c] \in DOMAIN datastoreCache)

\* the entry of an evicted name is in the cache again, written by the load
\* that was in flight when the name was evicted
C18_Witness ==
  \E c \in Calls :
    /\ arg[c] \in cleared
    /\ arg[c] \in DOMAIN datastoreCache
    /\ datastoreCache[arg[c]].lastFetched = <<c, "loaded">>

\* C19: a record leaves Loading only through the final write of the load
\* that wrote the placeholder, and a write of a load never replaces the
\* placeholder or the result of a load that started later (calls are
\* numbered in the order they start).
C19_OlderLoadNeverOverwritesNewer ==
  [][\A n \in Names :
        (n \in DOMAIN datastoreCache /\ n \in DOMAIN datastoreCache') =>
        /\ (datastoreCache[n].loading /\ ~datastoreCache'[n].loading) =>
              datastoreCache'[n].lastFetched[1] = datastoreCache[n].lastFetched[1]
        /\ datastoreCache'[n].lastFetched[1] >= datastoreCache[n].lastFetched[1]]_vars

\* the number of loads of the name n in flight
LoadsInFlight(n) == Cardinality({c \in Calls : InFlight(c) /\ arg[c] = n})

\* C20: while clearDatastoreCache is never called, the record of a name is
\* loading exactly when one load of the name is in flight, and no load of
\* the name is in flight otherwise.
C20_LoadingIffOneLoadInFlight ==
  \A n \in Names :
    /\ isDatastoreLoading(n) <=> LoadsInFlight(n) = 1
    /\ ~isDatastoreLoading(n) => LoadsInFlight(n) = 0

\* a name is loading with its one load in flight, and a second call of
\* the name waits for it instead of loading
C20_Witness ==
  \E n \in Names :
    /\ isDatastoreLoading(n) /\ LoadsInFlight(n) = 1
    /\ \E c \in Calls : pc[c] = "poll" /\ arg[c] = n

(***************************************************************************)
(* Progress of loads and of waiting calls.                                 *)
(***************************************************************************)
\* C21: there is no cancellation.  When the promises a load awaits settle,
\* a load that has written its placeholder goes on to its final write,
\* whatever evictions and other calls happen meanwhile, and the step that
\* ends it writes a Ready or a Failed record for its name.
C21_StartedLoadReachesFinalWrite ==
  /\ \A c \in FairCalls : InFlight(c) ~> ~InFlight(c)
  /\ [][\A c \in FairCalls :
          (InFlight(c) /\ ~InFlight(c)') =>
            /\ pc'[c] \in {"closeConn", "done"}
            /\ arg[c] \in DOMAIN datastoreCache'
            /\ ~datastoreCache'[arg[c]].loading
            /\ datastoreCache'[arg[c]].lastFetched \in {<<c, "loaded">>, <<c, "failed">>}]_vars

\* a load has made its final write although its name was evicted and
\* another call of the name was started while it was in flight
C21_Witness ==
  \E c1, c2 \in FairCalls :
    /\ c1 # c2 /\ arg[c1] = arg[c2]
    /\ InFlight(c2)
    /\ pc[c1] \in {"closeConn", "terminate", "done"}
    /\ arg[c1] \in DOMAIN datastoreCache
    /\ datastoreCache[arg[c1]].lastFetched[1] = c1
    /\ ~datastoreCache[arg[c1]].loading

\* C22: when the awaited promises settle and the poll timer keeps firing, a
\* call that has entered the polling wait returns, whatever further
\* loadDatastore and clearDatastoreCache calls are made for its name.
C22_WaitingCallReturns ==
  \A c \in FairCalls : (pc[c] = "poll") ~> (pc[c] = "done")

\* the record of n is the placeholder written by call c
PlaceholderOf(n, c) ==
  /\ n \in DOMAIN datastoreCache
  /\ datastoreCache[n].loading
  /\ datastoreCache[n].lastFetched = <<c, "initial">>

\* the record of n stays as it is in the step and no call waiting for n
\* returns in it
StaysLoading(n) ==
  /\ n \in DOMAIN datastoreCache' /\ datastoreCache'[n] = datastoreCache[n]
  /\ \A d \in Calls : (pc[d] = "poll" /\ arg[d] = n) => pc'[d] = "poll"

\* C23 as stated: with no eviction, as long as the fetch or the session
\* open of the load of a name has not completed, the record of the name
\* stays Loading and the calls waiting for it do not return.
C23_HungFetchOrSessionKeepsLoading ==
  [][\A c \in Calls, n \in Names :
        (PlaceholderOf(n, c) /\ arg[c] = n
           /\ (fetchSt'[c] = "pending" \/ sessSt'[c] = "pending")) =>
        StaysLoading(n)]_vars

(***************************************************************************)
(* Order of the steps of one load.                                         *)
(***************************************************************************)
\* C24: the fetch and the session open of a load are started together,
\* before either is awaited; the buffer is registered only when the fetch
\* has answered OK, the body is read and the session is open; then come,
\* in this order, the registration, the schema query, the projection
\* query, the normalization of the rows and the final write.
C24_StepsOfALoadInOrder ==
  [][\A c \in Calls :
       /\ (pc[c] = "idle" /\ pc'[c] = "join") =>
            (fetchSt'[c] = "pending" /\ sessSt'[c] = "pending")
       /\ pc'[c] \in {"register", "describe", "select"} =>
            (fetchSt'[c] = "response" /\ ResponseOk(status'[c]) /\ sessSt'[c] = "open")
       /\ (pc'[c] = "buffer" /\ pc[c] # "buffer") => pc[c] = "join"
       /\ (pc'[c] = "register" /\ pc[c] # "register") => pc[c] = "buffer"
       /\ (pc'[c] = "describe" /\ pc[c] # "describe") => pc[c] = "register"
       /\ (pc'[c] = "select" /\ pc[c] # "select") => pc[c] = "describe"
       /\ (ret'[c].kind = "returning" /\ ret[c].kind # "returning") =>
            /\ pc[c] = "select"
            /\ datastoreCache'[arg[c]].data = TransformedData(body[c])
            /\ datastoreCache'[arg[c]].lastFetched = <<c, "loaded">>]_vars

\* a load has gone through all its steps and written normalized rows
C24_Witness ==
  \E c \in Calls :
    /\ pc[c] = "closeConn" /\ ret[c].kind = "returning"
    /\ fetchSt[c] = "response" /\ sessSt[c] = "open"
    /\ Len(body[c].rows) > 0
    /\ arg[c] \in DOMAIN datastoreCache
    /\ datastoreCache[arg[c]].data = TransformedData(body[c])

\* whether the promise of call c has settled
Settled(c) == ret[c].kind \in {"resolved", "rejected"}

\* C25: on the success path and on the failure path of a load the final
\* write comes before the close of the session, and the call that started
\* the load settles only when the session it opened has been closed.
C25_WriteThenCloseThenSettle ==
  [][\A c \in Calls :
       /\ (sessSt[c] = "open" /\ sessSt'[c] = "connClosed") =>
            (~InFlight(c) /\ ret[c].kind \in {"returning", "throwing"})
       /\ (~Settled(c) /\ Settled(c)' /\ fetchSt'[c] # "none" /\ SessionOpened(c)') =>
            sessSt'[c] = "terminated"]_vars

\* C26: the call that started a load that fails writes the Failed record
\* and then rejects with the error it caught, the message of the record; a
\* call that waited by polling never rejects: it resolves with the record
\* it finds (the Failed record) or with the placeholder.
C26_InitiatorRejectsWaiterResolves ==
  [][\A c \in Calls :
       /\ (InFlight(c) /\ ~InFlight(c)' /\ ret'[c].kind # "returning") =>
            /\ ret'[c].kind \in {"throwing", "rejected"}
            /\ datastoreCache'[arg[c]].lastFetched = <<c, "failed">>
            /\ datastoreCache'[arg[c]].error = ret'[c].value
       /\ (ret[c].kind = "throwing" /\ Settled(c)') =>
            (ret'[c].kind = "rejected" /\ ret'[c].value = ret[c].value)
       /\ fetchSt'[c] = "none" => ret'[c].kind \in {"pending", "resolved"}
       /\ (pc[c] = "poll" /\ pc'[c] = "done") =>
            /\ ret'[c].kind = "resolved"
            /\ ret'[c].value.loading = FALSE]_vars

(***************************************************************************)
(* Frame properties of the cache.                                          *)
(***************************************************************************)
\* the step changes nothing of any call: it is no step of a load or of a
\* waiting call
NoCallMoves ==
  /\ pc' = pc /\ arg' = arg /\ ret' = ret
  /\ fetchSt' = fetchSt /\ sessSt' = sessSt /\ status' = status /\ body' = body

\* C27: an entry of the cache is removed only by clearDatastoreCache: a
\* step in which an entry disappears is a call of clearDatastoreCache and
\* no step of a load (start, completion, failure) or of a waiting call;
\* the lookups getDatastoreFromCache and isDatastoreLoading read the cache.
C27_OnlyClearRemovesEntries ==
  [][(\E n \in DOMAIN datastoreCache : n \notin DOMAIN datastoreCache') =>
        /\ NoCallMoves
        /\ \E a \in ClearArgs : datastoreCache' = Cleared(datastoreCache, a)]_vars

\* a load has failed, the call that waited for it has returned, and the
\* entry is still in the cache, found by the lookups
C27_Witness ==
  \E c1, c2 \in Calls :
    /\ c1 # c2 /\ arg[c1] = arg[c2]
    /\ pc[c1] = "done" /\ ret[c1].kind = "rejected"
    /\ pc[c2] = "done" /\ fetchSt[c2] = "none"
    /\ getDatastoreFromCache(arg[c1]) # Null
    /\ getDatastoreFromCache(arg[c1]).lastFetched = <<c1, "failed">>
    /\ ~isDatastoreLoading(arg[c1])

\* call c takes a step
CallMoves(c) ==
  \/ pc'[c] # pc[c] \/ ret'[c] # ret[c]
  \/ fetchSt'[c] # fetchSt[c] \/ sessSt'[c] # sessSt[c]

\* C28: a step of a loadDatastore(x) call (start, placeholder write,
\* final write, polling, release) neither creates nor changes nor removes
\* the entry of any other name
C28_LoadTouchesOnlyItsOwnName ==
  [][\A c \in Calls : CallMoves(c) =>
       \A y \in Names \ {arg'[c]} :
         /\ Has(datastoreCache', y) <=> Has(datastoreCache, y)
         /\ Has(datastoreCache, y) => datastoreCache'[y] = datastoreCache[y]]_vars

\* a load of one name has stored its rows while the load of another name,
\* started before that write, is still in flight with its placeholder
C28_Witness ==
  \E c1, c2 \in Calls :
    /\ c1 < c2 /\ arg[c1] # arg[c2]
    /\ Has(datastoreCache, arg[c1]) /\ Has(datastoreCache, arg[c2])
    /\ datastoreCache[arg[c1]].lastFetched = <<c1, "loaded">>
    /\ datastoreCache[arg[c2]].lastFetched = <<c2, "initial">>
    /\ InFlight(c2)

(***************************************************************************)
(* The fields of the stored records.                                       *)
(***************************************************************************)
\* C29: the columns of every Ready record are the column names the DESCRIBE
\* query of its load returned, without "__index_level_0__", in schema
\* order, also when the projection returned no row
C29_ColumnsAreSchemaMinusIndex ==
  \A c \in Calls :
    (/\ Has(datastoreCache, arg[c])
     /\ datastoreCache[arg[c]].lastFetched = <<c, "loaded">>) =>
        datastoreCache[arg[c]].columns = setupColumns(body[c].schema)

\* C30: every record of the cache has totalRecords equal to the number of
\* its rows, and a Loading or a Failed record has no row and totalRecords 0
C30_TotalRecordsCountsRows ==
  \A n \in DOMAIN datastoreCache :
    /\ datastoreCache[n].totalRecords = Len(datastoreCache[n].data)
    /\ (datastoreCache[n].loading \/ datastoreCache[n].error # Null) =>
         (datastoreCache[n].data = <<>> /\ datastoreCache[n].totalRecords = 0)

\* the cache holds a loaded record with rows under one name and a Failed
\* record under another
C30_Witness ==
  \E n, m \in DOMAIN datastoreCache :
    /\ datastoreCache[n].lastFetched[2] = "loaded"
    /\ datastoreCache[n].totalRecords > 0
    /\ datastoreCache[m].lastFetched[2] = "failed"
    /\ datastoreCache[m].totalRecords = 0

(***************************************************************************)
(* The cells of the per-dataset normalizer.                                *)
(***************************************************************************)
\* C31: every cell processField returns is null, a string or an array of
\* strings, whatever the raw cell is (a number, a boolean included)
C31_CellIsNullStringOrStrings ==
  op = "processField" =>
    \/ result = Null
    \/ result.t = "string"
    \/ result.t = "array" /\ \A i \in 1..Len(result.v) : result.v[i].t = "string"

(***************************************************************************)
(* The filter options of a loaded record.                                  *)
(***************************************************************************)
\* the elements of a sequence
Range(seq) == {seq[i] : i \in 1..Len(seq)}

\* the column names occurring in the rows of a record
ColumnsOfRows(rows) == UNION {Range(Keys(rows[r])) : r \in 1..Len(rows)}

\* whether every cell of the column is null or blank in every row
AllBlank(rows, column) ==
  \A r \in 1..Len(rows) : \A i \in 1..Len(rows[r]) :
    rows[r][i][1] = column =>
      (IsNullish(rows[r][i][2]) \/
       (rows[r][i][2].t = "string" /\ TrimsToEmpty(rows[r][i][2].v)))

\* C32: the keys of filterOptions of a Ready record are all the column
\* names occurring in its rows, the index column included although columns
\* leaves it out; a column whose cells are all null or blank has the empty
\* list of options
C32_FilterKeysAreAllRowColumns ==
  \A n \in DOMAIN datastoreCache :
    datastoreCache[n].lastFetched[2] = "loaded" =>
      /\ DOMAIN datastoreCache[n].filterOptions = ColumnsOfRows(datastoreCache[n].data)
      /\ Range(datastoreCache[n].columns) =
           DOMAIN datastoreCache[n].filterOptions \ {"__index_level_0__"}
         \/ datastoreCache[n].data = <<>>
      /\ \A column \in DOMAIN datastoreCache[n].filterOptions :
           AllBlank(datastoreCache[n].data, column) =>
             datastoreCache[n].filterOptions[column] = <<>>

\* a Ready record whose filterOptions has the index column as a key, which
\* is no member of columns, and a column of null cells with no option
C32_Witness ==
  \E n \in DOMAIN datastoreCache :
    /\ datastoreCache[n].lastFetched[2] = "loaded"
    /\ "__index_level_0__" \in DOMAIN datastoreCache[n].filterOptions
    /\ "__index_level_0__" \notin Range(datastoreCache[n].columns)
    /\ \E column \in DOMAIN datastoreCache[n].filterOptions :
         /\ AllBlank(datastoreCache[n].data, column)
         /\ datastoreCache[n].filterOptions[column] = <<>>

(***************************************************************************)
(* The metacatalog store.                                                  *)
(***************************************************************************)
\* fetchCatalogData call k has passed the guard and not finished its finally
CatInFlight(k) == cpc[k] \in {"join", "register", "select", "closeConn", "terminate"}

\* C33: loading is true exactly when some fetchCatalogData load is in
\* flight, also when two calls overlap
C33_CatLoadingIffLoadInFlight ==
  loading <=> \E k \in CatCalls : CatInFlight(k)

\* a step in which the load of call k leaves its try block by an error
\* (the alternative at "select" is the assignment of the rows to data)
CatLeavesTry(k) ==
  /\ cpc[k] \in {"join", "register", "select"}
  /\ cpc'[k] \in {"done", "closeConn"}

\* C34: a load that fails at any step records a message in error and leaves
\* data as it was; the call resolves and sets loading to false when it
\* ends; a call made while an error is recorded fetches again
C34_CatFailureIsRecordedAndRetried ==
  [][\A k \in CatCalls :
       /\ CatLeavesTry(k) =>
            \/ /\ error' # Null /\ error'.t = "string" /\ error'.v # ""
               /\ data' = data
            \/ /\ cpc[k] = "select" /\ error' = error
               /\ \E b \in CatBodies : data' = TransformedCatalog(b)
       /\ (CatInFlight(k) /\ cpc'[k] = "done") =>
            (cret'[k] = "resolved" /\ loading' = FALSE)
       /\ cret'[k] \in {"pending", "resolved"}
       /\ (cpc[k] = "idle" /\ cpc'[k] # "idle" /\ Truthy(error)) =>
            (cpc'[k] = "join" /\ cfetch'[k] = "pending" /\ csess'[k] = "pending")]_vars

\* C35: a call of clearData leaves data empty and error null and changes
\* neither loading nor any load in flight; the first fetchCatalogData call
\* after it is not stopped by the guard and starts a fetch, also when a
\* load that was in flight at the clearData has assigned its rows since
C35_ClearDataResetsAndAllowsRefetch ==
  [][/\ (~afterClear /\ afterClear') =>
          /\ data' = <<>> /\ error' = Null /\ loading' = loading
          /\ cpc' = cpc /\ cfetch' = cfetch /\ csess' = csess /\ cret' = cret
     /\ \A k \in CatCalls :
          (afterClear /\ cpc[k] = "idle" /\ cpc'[k] # "idle") =>
             (cpc'[k] = "join" /\ cfetch'[k] = "pending" /\ csess'[k] = "pending")]_vars

(***************************************************************************)
(* The filters in the URL.                                                 *)
(***************************************************************************)
\* the entries of a filter map that have at least one selected value
WithSelection(filters) == SelectSeq(filters, LAMBDA e : Len(e[2]) > 0)

\* C36: a filter map written to the query parameters "<column>_filter" and
\* read back is the same map restricted to the columns that have at least
\* one selected value
C36_FiltersRoundTripThroughUrl ==
  op = "filterRoundTrip" => result.v = WithSelection(input.v.v)
====
